---- MODULE Spec2Model ----
(***************************************************************************)
(* cswinrt::concurrent_unordered_map and cswinrt::concurrent_unordered_set *)
(* (src/src/cswinrt/concurrent_containers.h).                              *)
(*                                                                         *)
(* One accumulator instance (of either class) is shared by NumThreads      *)
(* threads.  Every member function is three steps: the std::lock_guard     *)
(* constructor, the statement on m_data, the std::lock_guard destructor.   *)
(* A container is a bag of entries (pairs <<key, value>> for the map, keys *)
(* for the set) living in a node buffer; a container object is the index   *)
(* of its buffer in heap, so that the move constructor of consume() is a   *)
(* transfer of the buffer and sharing of a buffer would be visible.        *)
(***************************************************************************)
EXTENDS Integers, Sequences, FiniteSets, Bags, TLC

NumThreads == 2
MaxKey == 2
MaxVal == 2
MaxOps == 4
MaxInserts == 2
MaxLiveOps == 2

Threads == 1..NumThreads
Keys == 1..MaxKey
Vals == 1..MaxVal

Free == 0

VARIABLES
    kind,       \* which class template the instance is: "map" or "set"
    m_mutex,    \* m_mutex: Free or the thread that owns it
    m_data,     \* m_data: the buffer the member container holds
    heap,       \* node buffers: a sequence of bags of entries
    pc,         \* per thread: "idle", "lock", "body", "unlock"
    op,         \* per thread: the member function it is in, with arguments
    ret,        \* per thread: the value the function returns, in the field of its type
    returned,   \* history: the containers consume() has returned, in order
    ncalls,     \* history: number of calls made
    ninserts,   \* history: number of insert calls made
    calls,      \* history: per key, the values of the inserts called in this round
    last_guard, \* history: per key, the value of the insert that locked last
    created,    \* history: per key, how many entries were created for it
    barrier,    \* history: no consume has overlapped an insert or a consume
    ordered,    \* history: per key, no two inserts of the key have overlapped
    cleared,    \* history: no insert has locked since the last consume moved
    abs_data,   \* history: the entries after the calls so far, one at a time in guard order
    abs_ret,    \* history: per thread, the value its call returns in that execution
    size_at_call \* history: per thread in size(), the entry count when it was called,
                \* or -1 once a consume() has moved the storage during the call

vars == <<kind, m_mutex, m_data, heap, pc, op, ret, returned, ncalls, ninserts, calls,
          last_guard, created, barrier, ordered, cleared, abs_data, abs_ret,
          size_at_call>>

hist == <<returned, ncalls, ninserts, calls, last_guard, created, barrier, ordered, cleared,
          abs_data, abs_ret, size_at_call>>

NoOp == [name |-> "none", key |-> 0, val |-> 0]
NoRet == [empty |-> FALSE, size |-> 0, container |-> 0]
NoAbsRet == [empty |-> FALSE, size |-> 0, container |-> {}]

\* ---------------------------------------------------------------- containers

\* the keys a container holds
KeysOf(d) == IF kind = "map" THEN {e[1] : e \in BagToSet(d)} ELSE BagToSet(d)

\* std::unordered_map::try_emplace: an existing entry keeps its value
unordered_map_try_emplace(d, k, v) ==
    IF \E e \in BagToSet(d) : e[1] = k THEN d ELSE d (+) SetToBag({<<k, v>>})

\* m_data = {{key, value}}: the map is replaced by the single new entry
unordered_map_replace_all(d, k, v) == SetToBag({<<k, v>>})

\* std::unordered_map::insert_or_assign
unordered_map_insert_or_assign(d, k, v) ==
    IF \E e \in BagToSet(d) : e[1] = k
    THEN LET old == CHOOSE e \in BagToSet(d) : e[1] = k
         IN  (d (-) SetToBag({old})) (+) SetToBag({<<k, v>>})
    ELSE d (+) SetToBag({<<k, v>>})

\* std::unordered_multiset::insert: always adds a node
unordered_multiset_insert(d, x) == d (+) SetToBag({x})

\* std::unordered_set::insert
unordered_set_insert(d, x) == IF BagIn(x, d) THEN d ELSE d (+) SetToBag({x})

container_size(d) == BagCardinality(d)

\* return !m_data.empty()
container_empty_negated(d) == BagCardinality(d) # 0

container_empty(d) == BagCardinality(d) = 0

\* a copy: the result is a new buffer with the same entries, the source keeps its own
copy_construct(h, src) ==
    [heap |-> Append(h, h[src]), result |-> Len(h) + 1, source |-> src]

\* a reference: the result is the source's buffer, which the source keeps
alias_construct(h, src) ==
    [heap |-> h, result |-> src, source |-> src]

\* a move whose result is dropped: the caller gets a new empty container
move_discard(h, src) ==
    [heap |-> Append(Append(h, EmptyBag), EmptyBag),
     result |-> Len(h) + 1, source |-> Len(h) + 2]

\* the move constructor of std::unordered_map / std::unordered_set: the result
\* takes the source's buffer, the source is left with a new empty one
move_construct(h, src) ==
    [heap |-> Append(h, EmptyBag), result |-> src, source |-> Len(h) + 1]

\* ---------------------------------------------------------------- the calls

MapOps ==
    {[name |-> "insert_or_assign", key |-> k, val |-> v] : k \in Keys, v \in Vals}
    \cup {[name |-> n, key |-> 0, val |-> 0] : n \in {"empty", "size", "consume"}}

\* the value of a set is its own key
SetOps ==
    {[name |-> n, key |-> k, val |-> k] : n \in {"insert_cref", "insert_rref"}, k \in Keys}
    \cup {[name |-> n, key |-> 0, val |-> 0] : n \in {"empty", "size", "consume"}}

IsInsert(o) == o.name \in {"insert_or_assign", "insert_cref", "insert_rref"}

InFlight(t) == pc[t] # "idle"

Init ==
    /\ kind \in {"map", "set"}
    /\ m_mutex = Free
    /\ m_data = 1
    /\ heap = <<EmptyBag>>
    /\ pc = [t \in Threads |-> "idle"]
    /\ op = [t \in Threads |-> NoOp]
    /\ ret = [t \in Threads |-> NoRet]
    /\ returned = <<>>
    /\ ncalls = 0
    /\ ninserts = 0
    /\ calls = [k \in Keys |-> <<>>]
    /\ last_guard = [k \in Keys |-> 0]
    /\ created = [k \in Keys |-> 0]
    /\ barrier = TRUE
    /\ ordered = [k \in Keys |-> TRUE]
    /\ cleared = FALSE
    /\ abs_data = {}
    /\ abs_ret = [t \in Threads |-> NoAbsRet]
    /\ size_at_call = [t \in Threads |-> 0]

\* the call o executed alone, as one step, on the entries a: the entries
\* afterwards and the value returned
AbsApply(o, a) ==
    CASE o.name = "insert_or_assign" ->
            [data |-> {e \in a : e[1] # o.key} \cup {<<o.key, o.val>>}, ret |-> NoAbsRet]
      [] o.name \in {"insert_cref", "insert_rref"} ->
            [data |-> a \cup {o.key}, ret |-> NoAbsRet]
      [] o.name = "empty" ->
            [data |-> a, ret |-> [NoAbsRet EXCEPT !.empty = (a = {})]]
      [] o.name = "size" ->
            [data |-> a, ret |-> [NoAbsRet EXCEPT !.size = Cardinality(a)]]
      [] o.name = "consume" ->
            [data |-> {}, ret |-> [NoAbsRet EXCEPT !.container = a]]

\* a thread calls a member function of the instance
Call(t) ==
    /\ pc[t] = "idle"
    /\ ncalls < MaxOps
    /\ \E o \in (IF kind = "map" THEN MapOps ELSE SetOps) :
        \* the callers pass the values in turn, so that consecutive
        \* insert_or_assign calls carry different values
        /\ o.name = "insert_or_assign" => o.val = (ninserts % MaxVal) + 1
        /\ IsInsert(o) => ninserts < MaxInserts
        /\ ninserts' = ninserts + (IF IsInsert(o) THEN 1 ELSE 0)
        /\ op' = [op EXCEPT ![t] = o]
        /\ size_at_call' = IF o.name = "size"
                           THEN [size_at_call EXCEPT ![t] = container_size(heap[m_data])]
                           ELSE size_at_call
        /\ calls' = IF IsInsert(o)
                    THEN [calls EXCEPT ![o.key] = Append(@, o.val)]
                    ELSE calls
        /\ ordered' = IF IsInsert(o)
                      THEN [ordered EXCEPT ![o.key] =
                               @ /\ ~\E u \in Threads :
                                      InFlight(u) /\ IsInsert(op[u]) /\ op[u].key = o.key]
                      ELSE ordered
        /\ barrier' = (barrier /\
                        CASE IsInsert(o) ->
                               ~\E u \in Threads : InFlight(u) /\ op[u].name = "consume"
                          [] o.name = "consume" ->
                               ~\E u \in Threads :
                                   InFlight(u) /\ (IsInsert(op[u]) \/ op[u].name = "consume")
                          [] OTHER -> TRUE)
    /\ pc' = [pc EXCEPT ![t] = "lock"]
    /\ ncalls' = ncalls + 1
    /\ UNCHANGED <<kind, m_mutex, m_data, heap, ret, returned, last_guard, created, cleared,
                   abs_data, abs_ret>>

\* std::lock_guard lock(m_mutex), with the mutex never checked
lock_guard_ctor_unchecked(t) ==
    /\ pc[t] = "lock"
    /\ m_mutex' = t
    /\ pc' = [pc EXCEPT ![t] = "body"]
    /\ last_guard' = IF IsInsert(op[t])
                     THEN [last_guard EXCEPT ![op[t].key] = op[t].val]
                     ELSE last_guard
    /\ cleared' = (cleared /\ ~IsInsert(op[t]))
    /\ abs_data' = AbsApply(op[t], abs_data).data
    /\ abs_ret' = [abs_ret EXCEPT ![t] = AbsApply(op[t], abs_data).ret]
    /\ UNCHANGED <<kind, m_data, heap, op, ret, returned, ncalls, ninserts, calls, created,
                   barrier, ordered, size_at_call>>

\* std::lock_guard lock(m_mutex): blocks until the mutex is free, then owns it
lock_guard_ctor(t) ==
    /\ pc[t] = "lock"
    /\ m_mutex = Free
    /\ m_mutex' = t
    /\ pc' = [pc EXCEPT ![t] = "body"]
    /\ last_guard' = IF IsInsert(op[t])
                     THEN [last_guard EXCEPT ![op[t].key] = op[t].val]
                     ELSE last_guard
    /\ cleared' = (cleared /\ ~IsInsert(op[t]))
    /\ abs_data' = AbsApply(op[t], abs_data).data
    /\ abs_ret' = [abs_ret EXCEPT ![t] = AbsApply(op[t], abs_data).ret]
    /\ UNCHANGED <<kind, m_data, heap, op, ret, returned, ncalls, ninserts, calls, created,
                   barrier, ordered, size_at_call>>

\* the statement of a member function that stores an entry
InsertBody(t, d) ==
    /\ heap' = [heap EXCEPT ![m_data] = d]
    /\ created' = [created EXCEPT ![op[t].key] =
                      @ + (IF op[t].key \in KeysOf(heap[m_data]) THEN 0 ELSE 1)]
    /\ ret' = [ret EXCEPT ![t] = NoRet]
    /\ pc' = [pc EXCEPT ![t] = "unlock"]
    /\ UNCHANGED <<kind, m_mutex, m_data, op, returned, ncalls, ninserts, calls, last_guard,
                   barrier, ordered, cleared, abs_data, abs_ret, size_at_call>>

\* the statement of a member function that only reads m_data
ReadBody(t, r) ==
    /\ ret' = [ret EXCEPT ![t] = r]
    /\ pc' = [pc EXCEPT ![t] = "unlock"]
    /\ UNCHANGED <<kind, m_mutex, m_data, heap, op, hist>>

\* return std::move(m_data): the returned container is constructed from m_data
ConsumeBody(t) ==
    LET r == move_construct(heap, m_data)
    IN  /\ heap' = r.heap
        /\ m_data' = r.source
        /\ ret' = [ret EXCEPT ![t] = [NoRet EXCEPT !.container = r.result]]
        /\ returned' = Append(returned, r.result)
        /\ cleared' = TRUE
        /\ size_at_call' = [u \in Threads |->
                              IF InFlight(u) /\ op[u].name = "size" THEN -1
                              ELSE size_at_call[u]]
        /\ pc' = [pc EXCEPT ![t] = "unlock"]
        /\ UNCHANGED <<kind, m_mutex, op, ncalls, ninserts, calls, last_guard, created,
                       barrier, ordered, abs_data, abs_ret>>

AtBody(t, k, n) == kind = k /\ pc[t] = "body" /\ op[t].name = n

map_insert_or_assign(t) ==
    /\ AtBody(t, "map", "insert_or_assign")
    /\ InsertBody(t, unordered_map_insert_or_assign(heap[m_data], op[t].key, op[t].val))

map_empty(t) ==
    /\ AtBody(t, "map", "empty")
    /\ ReadBody(t, [NoRet EXCEPT !.empty = container_empty(heap[m_data])])

\* a size() without the lock_guard: it reads m_data as soon as it is called
map_size_unlocked(t) ==
    /\ kind = "map" /\ pc[t] = "lock" /\ op[t].name = "size"
    /\ ReadBody(t, [NoRet EXCEPT !.size = container_size(heap[m_data])])

map_size(t) ==
    /\ AtBody(t, "map", "size")
    /\ ReadBody(t, [NoRet EXCEPT !.size = container_size(heap[m_data])])

\* a consume() that rejects an accumulator holding no entries: it throws,
\* the lock_guard unlocks during unwinding and no container is returned
map_consume_nonempty(t) ==
    /\ AtBody(t, "map", "consume")
    /\ IF heap[m_data] = EmptyBag
       THEN /\ ret' = [ret EXCEPT ![t] = NoRet]
            /\ pc' = [pc EXCEPT ![t] = "unlock"]
            /\ UNCHANGED <<kind, m_mutex, m_data, heap, op, hist>>
       ELSE ConsumeBody(t)

\* a consume() in two critical sections: the contents are copied out under
\* the guard, the guard is released, and the storage is cleared under the
\* guard taken again
map_consume_two_sections(t) ==
    /\ AtBody(t, "map", "consume")
    /\ \/ /\ ret[t].container = 0
          /\ m_mutex = t
          /\ LET r == copy_construct(heap, m_data)
             IN  /\ heap' = r.heap
                 /\ ret' = [ret EXCEPT ![t] = [NoRet EXCEPT !.container = r.result]]
          /\ m_mutex' = Free
          /\ UNCHANGED <<kind, m_data, pc, op, hist>>
       \/ /\ ret[t].container # 0
          /\ m_mutex = Free
          /\ m_mutex' = t
          /\ heap' = [heap EXCEPT ![m_data] = EmptyBag]
          /\ returned' = Append(returned, ret[t].container)
          /\ cleared' = TRUE
          /\ pc' = [pc EXCEPT ![t] = "unlock"]
          /\ UNCHANGED <<kind, m_data, op, ret, ncalls, ninserts, calls, last_guard,
                         created, barrier, ordered, abs_data, abs_ret, size_at_call>>

map_consume(t) ==
    /\ AtBody(t, "map", "consume")
    /\ ConsumeBody(t)

set_insert_cref(t) ==
    /\ AtBody(t, "set", "insert_cref")
    /\ InsertBody(t, unordered_set_insert(heap[m_data], op[t].key))

set_insert_rref(t) ==
    /\ AtBody(t, "set", "insert_rref")
    /\ InsertBody(t, unordered_set_insert(heap[m_data], op[t].key))

set_empty(t) ==
    /\ AtBody(t, "set", "empty")
    /\ ReadBody(t, [NoRet EXCEPT !.empty = container_empty(heap[m_data])])

set_size(t) ==
    /\ AtBody(t, "set", "size")
    /\ ReadBody(t, [NoRet EXCEPT !.size = container_size(heap[m_data])])

set_consume(t) ==
    /\ AtBody(t, "set", "consume")
    /\ ConsumeBody(t)

\* the end of the function with the mutex left locked
lock_guard_dtor_leak(t) ==
    /\ pc[t] = "unlock"
    /\ pc' = [pc EXCEPT ![t] = "idle"]
    /\ op' = [op EXCEPT ![t] = NoOp]
    /\ ret' = [ret EXCEPT ![t] = NoRet]
    /\ UNCHANGED <<kind, m_mutex, m_data, heap, hist>>

\* ~lock_guard(): the mutex is unlocked and the function returns
lock_guard_dtor(t) ==
    /\ pc[t] = "unlock"
    /\ m_mutex' = Free
    /\ pc' = [pc EXCEPT ![t] = "idle"]
    /\ calls' = IF op[t].name = "consume" THEN [k \in Keys |-> <<>>] ELSE calls
    /\ last_guard' = IF op[t].name = "consume" THEN [k \in Keys |-> 0] ELSE last_guard
    /\ op' = [op EXCEPT ![t] = NoOp]
    /\ ret' = [ret EXCEPT ![t] = NoRet]
    /\ abs_ret' = [abs_ret EXCEPT ![t] = NoAbsRet]
    /\ size_at_call' = [size_at_call EXCEPT ![t] = 0]
    /\ UNCHANGED <<kind, m_data, heap, returned, ncalls, ninserts, created, barrier, ordered,
                   cleared, abs_data>>

Body(t) ==
    \/ map_insert_or_assign(t)
    \/ map_empty(t)
    \/ map_size(t)
    \/ map_consume(t)
    \/ set_insert_cref(t)
    \/ set_insert_rref(t)
    \/ set_empty(t)
    \/ set_size(t)
    \/ set_consume(t)

Next ==
    \E t \in Threads :
        \/ Call(t)
        \/ lock_guard_ctor(t)
        \/ Body(t)
        \/ lock_guard_dtor(t)

Spec == Init /\ [][Next]_vars

\* the same program making at most MaxLiveOps calls
LiveNext == Next /\ ncalls' <= MaxLiveOps

\* the scheduler is fair to every thread, and the mutex to every waiting thread
FairSpec ==
    /\ Init
    /\ [][LiveNext]_vars
    /\ \A t \in Threads :
        /\ SF_vars(lock_guard_ctor(t))
        /\ WF_vars(Body(t))
        /\ WF_vars(lock_guard_dtor(t))

\* ---------------------------------------------------------------- properties

InCS(t) == pc[t] \in {"body", "unlock"}

\* thread t has executed the statement of function n and not yet unlocked
Done(t, n) == pc[t] = "unlock" /\ op[t].name = n

\* the keys whose insert has been called in the current round
Called == {k \in Keys : calls[k] # <<>>}

\* the entries the calls of the current round amount to: per key, the value
\* of the insert that locked last (the map); the keys themselves (the set)
InsertedEntries ==
    IF kind = "map"
    THEN SetToBag({<<k, last_guard[k]>> : k \in Called})
    ELSE SetToBag(Called)

\* the entries of container d with key k, as a bag
EntriesOf(d, k) ==
    LET S == {e \in BagToSet(d) : (IF kind = "map" THEN e[1] ELSE e) = k}
    IN  [e \in S |-> CopiesIn(e, d)]

\* the number of entries with key k in the storage and the returned containers
RECURSIVE HeldIn(_, _)
HeldIn(k, n) ==
    IF n = 0
    THEN BagCardinality(EntriesOf(heap[m_data], k))
    ELSE BagCardinality(EntriesOf(heap[returned[n]], k)) + HeldIn(k, n - 1)

\* C1: when every insert / insert_or_assign has returned before the single
\* consume() is called, the container it returns holds exactly the inserted
\* entries: every inserted key once, for the map with the value of the
\* insert_or_assign that held the guard last for the key.
C1_ConsumeAfterBarrierIsUnion ==
    \A t \in Threads :
        (Done(t, "consume") /\ barrier /\ Len(returned) = 1)
            => heap[ret[t].container] = InsertedEntries

C1_Witness ==
    \E t \in Threads, k \in Keys :
        /\ kind = "map" /\ Done(t, "consume") /\ barrier /\ Len(returned) = 1
        /\ ~ordered[k] /\ Len(calls[k]) = 2 /\ calls[k][1] # calls[k][2]
        /\ BagIn(<<k, calls[k][1]>>, heap[ret[t].container])

\* C2: after consume() has moved the storage out and until an insert takes
\* the guard, the storage is the empty container, size() returns 0 and
\* empty() returns true.
C2_EmptyAfterConsume ==
    cleared =>
        /\ heap[m_data] = EmptyBag
        /\ \A t \in Threads :
            /\ Done(t, "size") => ret[t].size = 0
            /\ Done(t, "empty") => ret[t].empty = TRUE

C2_Witness ==
    \E t \in Threads :
        /\ cleared /\ Done(t, "size") /\ ret[t].size = 0
        /\ heap[returned[Len(returned)]] # EmptyBag

\* C3: at most one thread is between the lock and the unlock of a member
\* function of the instance, and that thread owns the mutex.
C3_MutualExclusion ==
    \A t, u \in Threads :
        /\ (InCS(t) /\ InCS(u)) => t = u
        /\ InCS(t) => m_mutex = t

C3_Witness ==
    \E t, u \in Threads : t # u /\ InCS(t) /\ pc[u] = "lock"

\* C4: the storage and the containers consume() returned are pairwise
\* distinct containers, and every entry created by an insert is held by
\* exactly one of them: per key, the entries held are as many as were created.
C4_ExactlyOneOwner ==
    /\ \A i \in 1..Len(returned) :
        /\ returned[i] # m_data
        /\ \A j \in 1..Len(returned) : returned[i] = returned[j] => i = j
    /\ \A k \in Keys : HeldIn(k, Len(returned)) = created[k]

C4_Witness ==
    \E k \in Keys :
        /\ created[k] = 2 /\ Len(returned) = 1
        /\ k \in KeysOf(heap[m_data]) /\ k \in KeysOf(heap[returned[1]])

\* C5: with a barrier before every consume(), the container a second or
\* later consume() returns holds exactly the entries inserted since the
\* consume() before it returned, and no key of the previous round that was
\* not inserted again.
C5_RoundsIndependent ==
    \A t \in Threads :
        (Done(t, "consume") /\ barrier /\ Len(returned) >= 2)
            => /\ heap[ret[t].container] = InsertedEntries
               /\ \A k \in KeysOf(heap[returned[Len(returned) - 1]]) :
                    k \notin Called => k \notin KeysOf(heap[ret[t].container])

C5_Witness ==
    \E t \in Threads, k \in Keys :
        /\ Done(t, "consume") /\ barrier /\ Len(returned) = 2
        /\ k \in KeysOf(heap[returned[1]]) /\ k \notin KeysOf(heap[returned[2]])
        /\ heap[returned[2]] # EmptyBag

C6_NoDeadlock ==
    (\E t \in Threads : InFlight(t))
        => \E t \in Threads :
              ENABLED (lock_guard_ctor(t) \/ Body(t) \/ lock_guard_dtor(t))

C6_GuardFree ==
    (\A t \in Threads : ~InCS(t)) => m_mutex = Free

C7_LastWriterWins ==
    \A t \in Threads, k \in Keys :
        (/\ kind = "map" /\ Done(t, "consume") /\ barrier /\ ordered[k]
         /\ Len(calls[k]) >= 2
         /\ calls[k][Len(calls[k]) - 1] # calls[k][Len(calls[k])])
            => EntriesOf(heap[ret[t].container], k) = SetToBag({<<k, calls[k][Len(calls[k])]>>})

C7_Witness ==
    \E t \in Threads, k \in Keys :
        /\ kind = "map" /\ Done(t, "consume") /\ barrier /\ ordered[k]
        /\ calls[k] = <<1, 2>>
        /\ BagIn(<<k, 2>>, heap[ret[t].container])

C8_Unique ==
    kind = "set" =>
        \A i \in 1..Len(returned) :
            \A x \in BagToSet(heap[returned[i]]) : CopiesIn(x, heap[returned[i]]) = 1

C8_NoOp ==
    \A t \in Threads :
        (/\ kind = "set" /\ pc[t] = "body" /\ IsInsert(op[t]) /\ pc'[t] = "unlock"
         /\ BagIn(op[t].key, heap[m_data]))
            => /\ m_data' = m_data
               /\ heap' = heap
               /\ container_size(heap'[m_data']) = container_size(heap[m_data])

\* C8: an insert of a value the set already holds, by either overload,
\* leaves the storage and its size unchanged, and every value of a container
\* consume() returned occurs in it exactly once.
C8_SetDeduplicates == []C8_Unique /\ [][C8_NoOp]_vars

C8_Witness ==
    \E t \in Threads, k \in Keys :
        /\ kind = "set" /\ Done(t, "consume") /\ barrier
        /\ Len(calls[k]) >= 2
        /\ CopiesIn(k, heap[ret[t].container]) = 1

C9_ConsumeOfEmpty ==
    \A t \in Threads :
        (/\ pc[t] = "body" /\ op[t].name = "consume" /\ pc'[t] # "body"
         /\ heap[m_data] = EmptyBag)
            => /\ pc'[t] = "unlock"
               /\ ret'[t].container \in 1..Len(heap')
               /\ heap'[ret'[t].container] = EmptyBag
               /\ heap'[m_data'] = EmptyBag

\* C9: consume() on an accumulator holding no entries completes like any
\* other consume(): it returns a container, the container is empty, and the
\* storage is empty afterwards.
C9_ConsumeOfEmptyIsEmpty == [][C9_ConsumeOfEmpty]_vars

C9_Witness ==
    \E t \in Threads :
        /\ Done(t, "consume") /\ Len(returned) = 2
        /\ heap[returned[1]] # EmptyBag
        /\ heap[ret[t].container] = EmptyBag /\ heap[m_data] = EmptyBag

C10_Frame ==
    \A i \in 1..Len(returned) :
        /\ returned'[i] = returned[i]
        /\ heap'[returned[i]] = heap[returned[i]]

\* C10: no step of any member function changes a container that consume()
\* has returned.
C10_ReturnedNeverChanges == [][C10_Frame]_vars

C10_Witness ==
    /\ Len(returned) >= 1
    /\ heap[returned[1]] # EmptyBag
    /\ heap[m_data] # EmptyBag
    /\ heap[m_data] # heap[returned[1]]

C11_Enabled ==
    Len(returned) >= 1 =>
        \A t \in Threads :
            /\ (pc[t] = "idle" /\ ncalls < MaxOps) => ENABLED Call(t)
            /\ (pc[t] = "lock" /\ \A u \in Threads : ~InCS(u)) => ENABLED lock_guard_ctor(t)
            /\ pc[t] = "body" => ENABLED Body(t)
            /\ pc[t] = "unlock" => ENABLED lock_guard_dtor(t)

C11_Stored ==
    \A t \in Threads :
        (Len(returned) >= 1 /\ pc[t] = "body" /\ pc'[t] = "unlock") =>
            /\ IsInsert(op[t]) =>
                  EntriesOf(heap'[m_data'], op[t].key) =
                      SetToBag({IF kind = "map" THEN <<op[t].key, op[t].val>>
                                                ELSE op[t].key})
            /\ op[t].name = "consume" =>
                  /\ ret'[t].container \in 1..Len(heap')
                  /\ heap'[ret'[t].container] = heap[m_data]

\* C11: after a consume() every member function can still be called, takes
\* the guard when it is free, executes and returns; an insert made after a
\* consume() is stored, and the next consume() returns what is stored.
C11_NoTerminalState == []C11_Enabled /\ [][C11_Stored]_vars

C11_Witness ==
    /\ ~barrier /\ Len(returned) = 2
    /\ heap[returned[1]] # EmptyBag /\ heap[returned[2]] # EmptyBag

C12_Section ==
    \A t \in Threads :
        Done(t, "consume") =>
            /\ m_mutex = t
            /\ heap[m_data] = EmptyBag
            /\ \A u \in Threads : InCS(u) => u = t

C12_Step ==
    \A t \in Threads :
        (/\ pc[t] = "body" /\ op[t].name = "consume"
         /\ <<pc[t], ret[t], heap, m_data, m_mutex>>' # <<pc[t], ret[t], heap, m_data, m_mutex>>)
            => /\ m_mutex = t /\ m_mutex' = t
               /\ pc'[t] = "unlock"
               /\ ret'[t].container \in 1..Len(heap')
               /\ heap'[ret'[t].container] = heap[m_data]
               /\ heap'[m_data'] = EmptyBag

\* C12: consume() detaches the storage and leaves it empty in one step made
\* with the guard held before and after it, so that between the detach and
\* the reset no other thread is between lock and unlock and the storage is
\* only ever seen with the contents before the consume() or empty.
C12_DetachAndResetAtomic == []C12_Section /\ [][C12_Step]_vars

C12_Witness ==
    \E t, u \in Threads :
        /\ Done(t, "consume") /\ heap[ret[t].container] # EmptyBag
        /\ pc[u] = "lock" /\ op[u].name = "size"

\* the entries of the inserts that took the guard since the last consume()
\* returned: per key, the value of the one that took it last
GuardEntries ==
    SetToBag({(IF kind = "map" THEN <<k, last_guard[k]>> ELSE k) :
                 k \in {j \in Keys : last_guard[j] # 0}})

\* C13: without a barrier the entries are split by the order in which the
\* guard was taken: the snapshot a consume() returns holds exactly the
\* entries of the inserts that took the guard before it and the storage none
\* of them; afterwards the storage holds exactly the entries of the inserts
\* that took the guard after it.
C13_SplitByGuardOrder ==
    /\ \A t \in Threads :
        Done(t, "consume") =>
            /\ heap[ret[t].container] = GuardEntries
            /\ heap[m_data] = EmptyBag
    /\ (\A t \in Threads : ~Done(t, "consume")) =>
        \A k \in Keys :
            (\A u \in Threads : ~(pc[u] = "body" /\ IsInsert(op[u]) /\ op[u].key = k))
                => EntriesOf(heap[m_data], k) = EntriesOf(GuardEntries, k)

C13_Witness ==
    /\ ~barrier /\ Len(returned) = 1
    /\ KeysOf(heap[returned[1]]) = {1}
    /\ KeysOf(heap[m_data]) = {2}
    /\ \A t \in Threads : ~InFlight(t)

C14_Step ==
    /\ \A t \in Threads :
        pc'[t] # pc[t] =>
            \/ pc[t] = "idle" /\ UNCHANGED <<heap, m_data, ret>>
            \/ /\ pc[t] = "lock" /\ pc'[t] = "body"
               /\ m_mutex = Free /\ m_mutex' = t
               /\ UNCHANGED <<heap, m_data, ret>>
            \/ pc[t] \in {"body", "unlock"} /\ m_mutex = t
    /\ <<heap, m_data, ret>>' # <<heap, m_data, ret>> =>
        \E t \in Threads : m_mutex = t /\ pc'[t] # pc[t]

\* C14: every step of a member function between its call and its return
\* either takes the free guard and touches nothing else, or is made by the
\* thread that holds the guard; the storage and the values read from it
\* change only in steps of the holder. This includes size() and empty().
C14_LockDiscipline == [][C14_Step]_vars

C14_Witness ==
    \E t, u \in Threads :
        /\ Done(t, "size") /\ ret[t].size >= 1 /\ m_mutex = t
        /\ pc[u] = "lock" /\ IsInsert(op[u])

C15_Results ==
    \A t \in Threads :
        /\ Done(t, "size") => ret[t].size = abs_ret[t].size
        /\ Done(t, "empty") => ret[t].empty = abs_ret[t].empty
        /\ Done(t, "consume") => heap[ret[t].container] = SetToBag(abs_ret[t].container)

C15_Storage ==
    (\A t \in Threads : pc[t] # "body") => heap[m_data] = SetToBag(abs_data)

C15_Order ==
    \A t \in Threads :
        <<abs_data, abs_ret[t]>>' # <<abs_data, abs_ret[t]>> =>
            \E u \in Threads :
                \/ pc[u] = "lock" /\ pc'[u] = "body"
                \/ u = t /\ pc[u] = "unlock" /\ pc'[u] = "idle" /\ abs_data' = abs_data

\* C15: the value every size(), empty() and consume() returns, and the
\* storage whenever no statement is pending, are those of executing the
\* calls one at a time, each as a single step, in the order in which they
\* took the guard; a call takes its place in that order between its call
\* and its return.
C15_Linearizable == [](C15_Results /\ C15_Storage) /\ [][C15_Order]_vars

C15_Witness ==
    \E t, u \in Threads :
        /\ t # u /\ Done(t, "size") /\ ret[t].size = 1
        /\ pc[u] = "lock" /\ IsInsert(op[u]) /\ ~(op[u].key \in KeysOf(heap[m_data]))
        /\ Len(returned) = 1 /\ ~barrier

C16_Step ==
    \A t \in Threads :
        /\ (pc[t] = "body" /\ pc'[t] = "unlock" /\ op[t].name = "size") =>
              /\ ret'[t].size = BagCardinality(heap[m_data])
              /\ UNCHANGED <<heap, m_data>>
        /\ (pc[t] = "body" /\ pc'[t] = "unlock" /\ op[t].name = "empty") =>
              /\ ret'[t].empty = (BagCardinality(heap[m_data]) = 0)
              /\ UNCHANGED <<heap, m_data>>
        /\ (pc[t] = "unlock" /\ pc'[t] = "idle" /\ op[t].name = "size"
                /\ size_at_call[t] >= 0) =>
              /\ size_at_call[t] <= ret[t].size
              /\ ret[t].size <= BagCardinality(heap[m_data])

\* C16: size() returns the number of entries of the storage at the step it
\* executes under the guard, empty() returns whether that number is zero,
\* neither changes the storage, and when no consume() moved the storage
\* during the call the value size() returns is at least the count when it
\* was called and at most the count when it returns.
C16_SizeAndEmpty == [][C16_Step]_vars

C16_Witness ==
    \E t \in Threads :
        Done(t, "size") /\ size_at_call[t] = 0 /\ ret[t].size = 1

C17_Step ==
    \A t \in Threads :
        (pc[t] = "body" /\ pc'[t] = "unlock" /\ op[t].name = "insert_or_assign") =>
            LET k == op[t].key
                d == heap[m_data]
                e == heap'[m_data']
            IN  /\ m_data' = m_data
                /\ EntriesOf(e, k) = SetToBag({<<k, op[t].val>>})
                /\ \A j \in Keys \ {k} : EntriesOf(e, j) = EntriesOf(d, j)
                /\ BagCardinality(e) =
                       BagCardinality(d) + (IF k \in KeysOf(d) THEN 0 ELSE 1)

\* C17: insert_or_assign(k, v) leaves exactly one entry for k, with value v,
\* leaves the entries of every other key as they were, and makes the entry
\* count grow by 1 when k was absent and by 0 when k was present.
C17_InsertOrAssignFrame == [][C17_Step]_vars

C17_Witness ==
    \E t \in Threads :
        /\ Done(t, "insert_or_assign")
        /\ calls[op[t].key] = <<1, 2>> /\ op[t].val = 2
        /\ created[op[t].key] = 1
        /\ heap[m_data] = SetToBag({<<op[t].key, 2>>})

C18_Step ==
    returned' = returned =>
        /\ KeysOf(heap[m_data]) \subseteq KeysOf(heap'[m_data'])
        /\ BagCardinality(heap[m_data]) <= BagCardinality(heap'[m_data'])

\* C18: every step other than the move of a consume() keeps all the keys
\* the storage holds and never lowers its entry count, so between two
\* consume() calls the keys only grow and the counts size() reads do not
\* decrease.
C18_NoDeletion == [][C18_Step]_vars

C18_Witness ==
    /\ Len(returned) >= 1
    /\ BagCardinality(heap[m_data]) = 2

====
